---- MODULE Spec2Model ----
(***************************************************************************)
(* A model of the conversation store of araliya-bot:                       *)
(* hf_space/app/services/session_manager.py (class SessionManager), with   *)
(* the message type of hf_space/app/models/chat.py and the settings of     *)
(* hf_space/app/config.py.                                                 *)
(*                                                                         *)
(* Callers are threads.  Every store operation is a `with self._lock:`     *)
(* block: a thread enters it by acquiring the re-entrant lock, runs the    *)
(* statements of the block in one or more steps, and leaves it by          *)
(* releasing the lock.  When a thread is about to leave (pc = "return" or  *)
(* pc = "raise") its frame holds the value it returns and a snapshot of    *)
(* the store taken when it entered, so that the effect of an operation can *)
(* be stated as a predicate on one state.                                  *)
(*                                                                         *)
(* The handlers of hf_space/app/api/routes.py and hf_space/app/main.py     *)
(* call the store: request holds what a handler has got so far and the     *)
(* answer it gives.                                                        *)
(***************************************************************************)
EXTENDS Integers, Sequences, FiniteSets, TLC

\* The callers, and the thread of the event loop, on which the task of
\* _periodic_cleanup runs.
Scheduler == 3
Threads == {1, 2, Scheduler}
NoThread == 0

\* Python's None, as a session_id argument and as a return value.
None == "None"
Roles == {"user", "assistant"}

\* ------------------------------------------------------------------ bounds
\* A scenario bounds a run: the callers, the ids they make up, how many ids
\* generate_session_id hands out, how far the clock runs, how many
\* ChatMessage objects are built, and the settings of config.py
\* (max_conversation_history, session_timeout_minutes in clock ticks); what
\* asyncio.get_event_loop() can find at construction, how many sweeps of
\* the task may fail, and settings.session_cleanup_interval_minutes in clock
\* ticks.

\* The scenario of Spec: sessions come and go, one call after the other.
\* Callers that race are the scenario of SpecConc.
MaxTime == 1
MaxMsgs == 1
MaxUuids == 1
SessionTimeout == 0
Lifecycle ==
    [threads |-> {1}, ids |-> {"", "a"}, max_uuids |-> MaxUuids,
     max_time |-> MaxTime, max_msgs |-> MaxMsgs, windows |-> {1},
     timeout |-> SessionTimeout, roles |-> {"user"},
     loops |-> {"none"}, max_faults |-> 0, interval |-> 0]

\* The scenario of SpecHistory: one session's history grows and is trimmed.
HistMaxWindow == 2
HistMaxMsgs == 5
HistMaxTime == 1
HistTimeout == 0
History ==
    [threads |-> {1, 2}, ids |-> {"a"}, max_uuids |-> 0,
     max_time |-> HistMaxTime, max_msgs |-> HistMaxMsgs,
     windows |-> 0 .. HistMaxWindow, timeout |-> HistTimeout,
     roles |-> {"user"}, loops |-> {"none"}, max_faults |-> 0,
     interval |-> 0]

\* The scenario of SpecConc: callers race on one session.
ConcMaxWindow == 2
ConcMaxMsgs == 3
ConcMaxTime == 1
ConcTimeout == 0
Concurrent ==
    [threads |-> {1, 2}, ids |-> {"a"}, max_uuids |-> 0,
     max_time |-> ConcMaxTime, max_msgs |-> ConcMaxMsgs,
     windows |-> 1 .. ConcMaxWindow, timeout |-> ConcTimeout,
     roles |-> Roles, loops |-> {"none"}, max_faults |-> 0,
     interval |-> 0]

\* The scenario of SpecSched: one caller, and the store constructed with or
\* without a running event loop.
SchedMaxTime == 1
SchedMaxMsgs == 1
SchedMaxFaults == 1
SchedTimeout == 0
Scheduled ==
    [threads |-> {1}, ids |-> {"a"}, max_uuids |-> 0,
     max_time |-> SchedMaxTime, max_msgs |-> SchedMaxMsgs, windows |-> {1},
     timeout |-> SchedTimeout, roles |-> {"user"},
     loops |-> {"running", "stopped", "none"}, max_faults |-> SchedMaxFaults,
     interval |-> 0]

VARIABLES
    sessions,                    \* self._sessions: id -> session record
    lock,                        \* self._lock, an RLock: owner and depth
    now,                         \* the clock read by datetime.utcnow()
    max_conversation_history,    \* settings.max_conversation_history
    pc,                          \* where each thread is
    frame,                       \* each thread's call: arguments, locals, result
    uuid_count,                  \* how many ids generate_session_id has returned
    built,                       \* how many ChatMessage objects were built
    acked,                       \* per id: the messages line 112 appended since
                                 \* the id was last deleted (history variable)
    event_loop,                  \* what asyncio.get_event_loop() finds when the
                                 \* store is constructed
    cleanup_task,                \* self._cleanup_task and the state of the task
    error_log,                   \* the errors _periodic_cleanup has logged
    request,                     \* per thread: the request its handler is serving
    sleep_until,                 \* when the timer of the task's asyncio.sleep fires
    slept_from                   \* when the task called asyncio.sleep

vars == <<sessions, lock, now, max_conversation_history, pc, frame,
          uuid_count, built, acked, event_loop, cleanup_task, error_log,
          request, sleep_until, slept_from>>

\* -------------------------------------------------------------- data model
\* uuid.uuid4() as a string: the n-th id handed out.
Uuid(n) == "u" \o ToString(n)
IssuedUuids == {Uuid(n) : n \in 1 .. uuid_count}
AllIds(B) == B.ids \cup {Uuid(n) : n \in 1 .. B.max_uuids}

\* The ids a caller can pass: the ones it makes up and the ones the store
\* handed out earlier.
SuppliedIds(B) == B.ids \cup IssuedUuids

\* A wrapper that does not pass its role on.
ChatMessage_unlabelled(role, content, timestamp) ==
    [role |-> "system", content |-> content, timestamp |-> timestamp]

ChatMessage(role, content, timestamp) ==
    [role |-> role, content |-> content, timestamp |-> timestamp]
NoMessage == [role |-> "none", content |-> 0, timestamp |-> 0]

EmptyStore == << >>
Put(S, k, v) == [x \in (DOMAIN S) \cup {k} |-> IF x = k THEN v ELSE S[x]]
Del(S, K) == [x \in (DOMAIN S) \ K |-> S[x]]

\* Python's truth value of an Optional[str]: None and "" are false.
Truthy(session_id) == session_id # None /\ session_id # ""

\* TailSlice with the wrong end kept: seq[:n], the oldest items.
HeadSlice(seq, n) ==
    IF n = 0 \/ Len(seq) <= n THEN seq
    ELSE SubSeq(seq, 1, n)

\* Python's seq[-n:] for n >= 0.  -0 is 0, so seq[-0:] is seq[0:], the whole
\* list; for n > 0 it is the last min(n, len) items.
TailSlice(seq, n) ==
    IF n = 0 \/ Len(seq) <= n THEN seq
    ELSE SubSeq(seq, Len(seq) - n + 1, Len(seq))

\* ------------------------------------------------------------------- lock
\* threading.RLock: free, or owned by one thread that acquired it count times.
\* CanAcquire of a store whose blocks do not wait for the lock.
CanAcquire_NoLock(t) == TRUE

\* Released of a lock that is not re-entrant: the inner with-block of a
\* nested call gives the lock up altogether.
Released_Whole(t) == [owner |-> NoThread, count |-> 0]

\* Released of a with-block that keeps the lock when it ends.
Released_Never(t) == lock

\* CanAcquire of a threading.Lock: the owner cannot take it a second time.
CanAcquire_Plain(t) == lock.owner = NoThread

FreeLock == [owner |-> NoThread, count |-> 0]
CanAcquire(t) == lock.owner \in {NoThread, t}
Acquired(t) == [owner |-> t, count |-> lock.count + 1]
Released(t) ==
    IF lock.count <= 1 THEN FreeLock
    ELSE [owner |-> lock.owner, count |-> lock.count - 1]

\* ------------------------------------------------- the store's operations
\* generate_session_id: str(uuid.uuid4()).  uuid4 is taken never to return
\* the same id twice, nor an id a caller made up before it was handed out
\* (test_generate_session_id asserts that two generated ids differ).
generate_session_id(n) == Uuid(n + 1)

\* create_session, line 66: is this a known session?
create_session_found(S, session_id) ==
    Truthy(session_id) /\ session_id \in DOMAIN S

\* touch that also resets created_at.
touch_resets_created(S, session_id, t) ==
    [S EXCEPT ![session_id].last_activity = t, ![session_id].created_at = t]

\* create_session, line 68.
touch(S, session_id, t) == [S EXCEPT ![session_id].last_activity = t]

\* create_session, line 72: session_id or self.generate_session_id().
new_session_id(session_id, u) ==
    IF Truthy(session_id) THEN session_id ELSE generate_session_id(u)

\* new_session that replaces the whole mapping by the new entry.
new_session_replaces_store(S, id, t1, t2) ==
    [x \in {id} |->
        [created_at |-> t1, last_activity |-> t2, messages |-> << >>]]

\* new_session with the two readings of the clock swapped.
new_session_swapped(S, id, t1, t2) ==
    Put(S, id, [created_at |-> t2, last_activity |-> t1, messages |-> << >>])

\* create_session, lines 73-77; t1 and t2 are the two readings of the clock.
new_session(S, id, t1, t2) ==
    Put(S, id, [created_at |-> t1, last_activity |-> t2, messages |-> << >>])

\* create_session calls generate_session_id exactly in this case.
Generates(session_id) == ~Truthy(session_id)

\* get_conversation_history returning the oldest messages, messages[:W].
get_conversation_history_head(S, session_id, W) ==
    IF session_id \notin DOMAIN S THEN << >>
    ELSE HeadSlice(S[session_id].messages, W)

get_conversation_history(S, session_id, W) ==
    IF session_id \notin DOMAIN S THEN << >>
    ELSE TailSlice(S[session_id].messages, W)

\* append_and_touch that stamps created_at as well.
append_resets_created(S, session_id, message, t) ==
    [S EXCEPT ![session_id].messages = Append(@, message),
              ![session_id].last_activity = t,
              ![session_id].created_at = t]

\* append_and_touch without line 113: last_activity is left as it was.
append_without_touch(S, session_id, message, t) ==
    [S EXCEPT ![session_id].messages = Append(@, message)]

\* add_message, lines 112-113.
append_and_touch(S, session_id, message, t) ==
    [S EXCEPT ![session_id].messages = Append(@, message),
              ![session_id].last_activity = t]

\* trim with the threshold off by one: len(messages) > 2 * W + 1.
trim_late(S, session_id, W) ==
    IF Len(S[session_id].messages) > W * 2 + 1
    THEN [S EXCEPT ![session_id].messages = TailSlice(@, W)]
    ELSE S

\* trim that keeps 2 * W messages instead of W.
trim_to_double(S, session_id, W) ==
    IF Len(S[session_id].messages) > W * 2
    THEN [S EXCEPT ![session_id].messages = TailSlice(@, W * 2)]
    ELSE S

\* trim that keeps W - 1 messages instead of W.
trim_short(S, session_id, W) ==
    IF Len(S[session_id].messages) > W * 2
    THEN [S EXCEPT ![session_id].messages = TailSlice(@, W - 1)]
    ELSE S

\* add_message, lines 116-119.
trim(S, session_id, W) ==
    IF Len(S[session_id].messages) > W * 2
    THEN [S EXCEPT ![session_id].messages = TailSlice(@, W)]
    ELSE S

\* session_exists that tests the id, not the store: bool(session_id).
session_exists_truthy(S, session_id) == Truthy(session_id)

session_exists(S, session_id) == session_id \in DOMAIN S

get_session_info(S, session_id) ==
    IF session_id \notin DOMAIN S THEN None
    ELSE [session_id |-> session_id,
          created_at |-> S[session_id].created_at,
          last_activity |-> S[session_id].last_activity,
          message_count |-> Len(S[session_id].messages)]

\* expired_sessions with >= for >: a session idle for exactly the timeout
\* is expired too.
expired_sessions_at_timeout(S, current_time, timeout) ==
    {sid \in DOMAIN S : current_time - S[sid].last_activity >= timeout}

\* expired_sessions with the difference taken the wrong way round.
expired_sessions_reversed(S, current_time, timeout) ==
    {sid \in DOMAIN S : S[sid].last_activity - current_time > timeout}

\* cleanup_expired_sessions, lines 161-164.
expired_sessions(S, current_time, timeout) ==
    {sid \in DOMAIN S : current_time - S[sid].last_activity > timeout}

\* A count of the sessions that have messages.
get_active_session_count_nonempty(S) ==
    Cardinality({sid \in DOMAIN S : S[sid].messages # << >>})

get_active_session_count(S) == Cardinality(DOMAIN S)

\* clear_session that empties the store (self._sessions.clear()).
clear_session_all(S, session_id) ==
    IF session_id \in DOMAIN S
    THEN [sessions |-> EmptyStore, ret |-> TRUE]
    ELSE [sessions |-> S, ret |-> FALSE]

clear_session(S, session_id) ==
    IF session_id \in DOMAIN S
    THEN [sessions |-> Del(S, {session_id}), ret |-> TRUE]
    ELSE [sessions |-> S, ret |-> FALSE]

\* ---------------------------------------------------------- the scheduler
\* start_cleanup_task that creates the task on any loop, running or not.
start_cleanup_task_always(loop) == "running"

\* _start_cleanup_task, lines 31-38: the task is created only when
\* get_event_loop() returns a loop that is running; a loop that is not running
\* (line 34) and no loop at all (RuntimeError, line 36) both leave
\* self._cleanup_task None.
start_cleanup_task(loop) == IF loop = "running" THEN "running" ELSE None

\* after_tick of a loop without the except clause of lines 49-50: any
\* exception ends the task.
after_tick_unguarded(task, outcome) ==
    IF outcome = "ok" THEN task ELSE "done"

\* _periodic_cleanup, lines 42-49: what becomes of the task when one turn of
\* the loop ends normally ("ok"), by asyncio.CancelledError or by another
\* Exception: only CancelledError reaches the break.
after_tick(task, outcome) ==
    IF outcome = "CancelledError" THEN "done" ELSE task

\* A sleep whose timer fires in the turn of the loop that set it.
call_later_at_once(t, delay) == t

\* asyncio.sleep(delay), line 45, called at time t: loop.call_later sets the
\* timer that wakes the task to fire at t + delay, and not before.
call_later(t, delay) == t + delay

\* The task is alive: created and not finished.  "cancelling" is a task whose
\* cancel() was called and that has not reached its next await yet.
TaskAlive == cleanup_task \in {"running", "cancelling"}

\* ---------------------------------------------------------------- requests
\* What a handler of api/routes.py or main.py holds while it serves a
\* request: the handler (entry), the statement it is at (stage), the
\* session_id and message it was given, the id create_session returned, the
\* list get_conversation_history returned, the messages it sent to the
\* generation service (prompt), and its answer.  calls lists the store operations the handler has called,
\* generated tells that generate_response returned a reply, connected what
\* check_connectivity returned, and evicted that the session of the request
\* was deleted after the handler resolved it (history variables).
NoRequest ==
    [entry |-> "none", stage |-> "none", session_id |-> None, sid |-> None,
     text |-> 0, history |-> << >>, prompt |-> << >>, calls |-> << >>,
     generated |-> FALSE, connected |-> FALSE,
     evicted |-> FALSE, status_code |-> 0, body |-> None,
     openai_status |-> None]

\* The session sid was deleted: the requests that had resolved it.
MarkEvicted(R, sid) ==
    [t \in DOMAIN R |->
        IF R[t].stage # "none" /\ R[t].sid = sid
        THEN [R[t] EXCEPT !.evicted = TRUE] ELSE R[t]]

\* ------------------------------------------------------------------ frames
IdleFrame ==
    [op |-> "none", sid |-> None, msg |-> NoMessage, pre |-> EmptyStore,
     ret |-> None, current_time |-> 0, expired |-> {}, todo |-> {}]

\* A call that has taken the lock: pre is the store as the call found it.
Call(op, sid, msg) ==
    [op |-> op, sid |-> sid, msg |-> msg, pre |-> sessions,
     ret |-> None, current_time |-> 0, expired |-> {}, todo |-> {}]

\* A call that has not taken the lock yet.
Pending(op, sid, msg) ==
    [op |-> op, sid |-> sid, msg |-> msg, pre |-> EmptyStore,
     ret |-> None, current_time |-> 0, expired |-> {}, todo |-> {}]

\* The calls under way that will make create_session generate an id.
WillGenerate ==
    {t \in Threads :
        /\ pc[t] \in {"built", "add_message_create", "create_session",
                      "create_new"}
        /\ frame[t].op \in {"create_session", "add_user_message",
                            "add_assistant_message"}
        /\ ~Truthy(frame[t].sid)}

\* ------------------------------------------------------------------- Init
InitOf(B) ==
    /\ sessions = EmptyStore
    /\ lock = FreeLock
    /\ now = 0
    /\ max_conversation_history \in B.windows
    /\ pc = [t \in Threads |-> "idle"]
    /\ frame = [t \in Threads |-> IdleFrame]
    /\ uuid_count = 0
    /\ built = 0
    /\ acked = [sid \in AllIds(B) |-> << >>]
    /\ event_loop \in B.loops
    /\ cleanup_task = start_cleanup_task(event_loop)
    /\ error_log = 0
    /\ request = [t \in Threads |-> NoRequest]
    /\ slept_from = now
    /\ sleep_until = call_later(now, B.interval)

\* ---------------------------------------------------------------- actions
\* Time passes.
Tick(B) ==
    /\ now < B.max_time
    /\ now' = now + 1
    /\ UNCHANGED <<sessions, lock, max_conversation_history, pc, frame,
                   uuid_count, built, acked,
                   event_loop, cleanup_task, error_log,
                   request, sleep_until, slept_from>>

\* A thread enters the with-block of one of the operations that take the
\* lock first thing (line 65, 92, 133, 138, 157, 176 or 189).
Enter(t, B) ==
    /\ pc[t] = "idle"
    /\ CanAcquire(t)
    /\ \E op \in {"create_session", "get_conversation_history", "session_exists",
                  "get_session_info", "cleanup_expired_sessions",
                  "get_active_session_count", "clear_session"} :
       \E sid \in SuppliedIds(B) \cup {None} :
          /\ sid = None => op \in {"create_session", "cleanup_expired_sessions",
                                   "get_active_session_count"}
          /\ sid # None => op \notin {"cleanup_expired_sessions",
                                      "get_active_session_count"}
          /\ (op = "create_session" /\ Generates(sid))
                => uuid_count + Cardinality(WillGenerate) < B.max_uuids
          /\ pc' = [pc EXCEPT ![t] = op]
          /\ frame' = [frame EXCEPT ![t] = Call(op, sid, NoMessage)]
    /\ lock' = Acquired(t)
    /\ UNCHANGED <<sessions, now, max_conversation_history, uuid_count, built, acked,
                   event_loop, cleanup_task, error_log,
                   request, sleep_until, slept_from>>

\* create_session returns r: to its caller, or into add_message (line 110),
\* which drops the value and goes on holding the lock it took itself.
CreateReturns(t, r) ==
    IF frame[t].op = "create_session"
    THEN /\ pc' = [pc EXCEPT ![t] = "return"]
         /\ frame' = [frame EXCEPT ![t].ret = r]
         /\ lock' = lock
    ELSE /\ pc' = [pc EXCEPT ![t] = "add_message_append"]
         /\ frame' = frame
         /\ lock' = Released(t)

\* create_session, line 66.
CreateCheck(t) ==
    /\ pc[t] = "create_session"
    /\ pc' = [pc EXCEPT ![t] =
                 IF create_session_found(sessions, frame[t].sid)
                 THEN "create_touch" ELSE "create_new"]
    /\ UNCHANGED <<sessions, lock, now, max_conversation_history, frame,
                   uuid_count, built, acked,
                   event_loop, cleanup_task, error_log,
                   request, sleep_until, slept_from>>

\* create_session, lines 68-69.  self._sessions[session_id] raises KeyError
\* when the id is not a key.
CreateTouch(t) ==
    /\ pc[t] = "create_touch"
    /\ IF frame[t].sid \in DOMAIN sessions
       THEN /\ sessions' = touch(sessions, frame[t].sid, now)
            /\ CreateReturns(t, frame[t].sid)
       ELSE /\ sessions' = sessions
            /\ pc' = [pc EXCEPT ![t] = "raise"]
            /\ frame' = [frame EXCEPT ![t].ret = "KeyError"]
            /\ lock' = lock
    /\ UNCHANGED <<now, max_conversation_history, uuid_count, built, acked,
                   event_loop, cleanup_task, error_log,
                   request, sleep_until, slept_from>>

\* create_session, lines 72-80.  The clock may advance between the two
\* readings of lines 74 and 75.
CreateNew(t, B) ==
    /\ pc[t] = "create_new"
    /\ \E d \in 0 .. 1 :
          /\ now + d <= B.max_time
          /\ LET id == new_session_id(frame[t].sid, uuid_count)
             IN  /\ sessions' = new_session(sessions, id, now, now + d)
                 /\ CreateReturns(t, id)
          /\ now' = now + d
    /\ uuid_count' = IF Generates(frame[t].sid) THEN uuid_count + 1 ELSE uuid_count
    /\ UNCHANGED <<max_conversation_history, built, acked,
                   event_loop, cleanup_task, error_log,
                   request, sleep_until, slept_from>>

\* GetConversationHistory on a store that makes a session for an id it does
\* not know (self._sessions a defaultdict).
GetConversationHistory_Creating(t) ==
    /\ pc[t] = "get_conversation_history"
    /\ frame' = [frame EXCEPT ![t].ret =
                    get_conversation_history(sessions, frame[t].sid,
                                             max_conversation_history)]
    /\ sessions' = IF frame[t].sid \in DOMAIN sessions THEN sessions
                   ELSE new_session(sessions, frame[t].sid, now, now)
    /\ pc' = [pc EXCEPT ![t] = "return"]
    /\ UNCHANGED <<lock, now, max_conversation_history, uuid_count, built, acked,
                   event_loop, cleanup_task, error_log,
                   request, sleep_until, slept_from>>

\* get_conversation_history, lines 93-98.
GetConversationHistory(t) ==
    /\ pc[t] = "get_conversation_history"
    /\ pc' = [pc EXCEPT ![t] = "return"]
    /\ frame' = [frame EXCEPT ![t].ret =
                    get_conversation_history(sessions, frame[t].sid,
                                             max_conversation_history)]
    /\ UNCHANGED <<sessions, lock, now, max_conversation_history, uuid_count,
                   built, acked,
                   event_loop, cleanup_task, error_log,
                   request, sleep_until, slept_from>>

\* session_exists, line 134.
SessionExists(t) ==
    /\ pc[t] = "session_exists"
    /\ pc' = [pc EXCEPT ![t] = "return"]
    /\ frame' = [frame EXCEPT ![t].ret = session_exists(sessions, frame[t].sid)]
    /\ UNCHANGED <<sessions, lock, now, max_conversation_history, uuid_count,
                   built, acked,
                   event_loop, cleanup_task, error_log,
                   request, sleep_until, slept_from>>

\* get_session_info, lines 139-148.
GetSessionInfo(t) ==
    /\ pc[t] = "get_session_info"
    /\ pc' = [pc EXCEPT ![t] = "return"]
    /\ frame' = [frame EXCEPT ![t].ret = get_session_info(sessions, frame[t].sid)]
    /\ UNCHANGED <<sessions, lock, now, max_conversation_history, uuid_count,
                   built, acked,
                   event_loop, cleanup_task, error_log,
                   request, sleep_until, slept_from>>

\* get_active_session_count, line 177.
GetActiveSessionCount(t) ==
    /\ pc[t] = "get_active_session_count"
    /\ pc' = [pc EXCEPT ![t] = "return"]
    /\ frame' = [frame EXCEPT ![t].ret = get_active_session_count(sessions)]
    /\ UNCHANGED <<sessions, lock, now, max_conversation_history, uuid_count,
                   built, acked,
                   event_loop, cleanup_task, error_log,
                   request, sleep_until, slept_from>>

\* clear_session, lines 190-194.
ClearSession(t) ==
    /\ pc[t] = "clear_session"
    /\ pc' = [pc EXCEPT ![t] = "return"]
    /\ LET r == clear_session(sessions, frame[t].sid)
       IN  /\ sessions' = r.sessions
           /\ frame' = [frame EXCEPT ![t].ret = r.ret]
           /\ acked' = IF r.ret THEN [acked EXCEPT ![frame[t].sid] = << >>]
                       ELSE acked
           /\ request' = IF r.ret THEN MarkEvicted(request, frame[t].sid)
                         ELSE request
    /\ UNCHANGED <<lock, now, max_conversation_history, uuid_count, built,
                   event_loop, cleanup_task, error_log,
                   sleep_until, slept_from>>

\* cleanup_expired_sessions, lines 158-164: read the clock, list the expired.
CleanupScan(t, B) ==
    /\ pc[t] = "cleanup_expired_sessions"
    /\ pc' = [pc EXCEPT ![t] = "cleanup_delete"]
    /\ LET expired == expired_sessions(sessions, now, B.timeout)
       IN  frame' = [frame EXCEPT ![t].current_time = now,
                                  ![t].expired = expired, ![t].todo = expired]
    /\ UNCHANGED <<sessions, lock, now, max_conversation_history, uuid_count,
                   built, acked,
                   event_loop, cleanup_task, error_log,
                   request, sleep_until, slept_from>>

\* cleanup_expired_sessions, lines 166-167: one turn of the loop.  del raises
\* KeyError when the id is not a key.
CleanupDelete(t) ==
    /\ pc[t] = "cleanup_delete"
    /\ \E sid \in frame[t].todo :
          IF sid \in DOMAIN sessions
          THEN /\ sessions' = Del(sessions, {sid})
               /\ acked' = [acked EXCEPT ![sid] = << >>]
               /\ request' = MarkEvicted(request, sid)
               /\ frame' = [frame EXCEPT ![t].todo = @ \ {sid}]
               /\ pc' = pc
          ELSE /\ sessions' = sessions
               /\ acked' = acked
               /\ request' = request
               /\ frame' = [frame EXCEPT ![t].ret = "KeyError"]
               /\ pc' = [pc EXCEPT ![t] = "raise"]
    /\ UNCHANGED <<lock, now, max_conversation_history, uuid_count, built,
                   event_loop, cleanup_task, error_log,
                   sleep_until, slept_from>>

\* cleanup_expired_sessions, lines 169-172: the loop is over.
CleanupReturn(t) ==
    /\ pc[t] = "cleanup_delete"
    /\ frame[t].todo = {}
    /\ pc' = [pc EXCEPT ![t] = "return"]
    /\ frame' = [frame EXCEPT ![t].ret = Cardinality(frame[t].expired)]
    /\ UNCHANGED <<sessions, lock, now, max_conversation_history, uuid_count,
                   built, acked,
                   event_loop, cleanup_task, error_log,
                   request, sleep_until, slept_from>>

\* add_user_message / add_assistant_message, line 123 / 128: the ChatMessage
\* is built, and stamped with the clock, before add_message is called.
BuildMessage(t, B) ==
    /\ pc[t] = "idle"
    /\ built < B.max_msgs
    /\ \E sid \in SuppliedIds(B), role \in B.roles :
          /\ Generates(sid)
                => uuid_count + Cardinality(WillGenerate) < B.max_uuids
          /\ frame' = [frame EXCEPT ![t] =
                Pending(IF role = "user" THEN "add_user_message"
                                      ELSE "add_assistant_message",
                     sid, ChatMessage(role, built + 1, now))]
    /\ built' = built + 1
    /\ pc' = [pc EXCEPT ![t] = "built"]
    /\ UNCHANGED <<sessions, lock, now, max_conversation_history, uuid_count, acked,
                   event_loop, cleanup_task, error_log,
                   request, sleep_until, slept_from>>

\* add_message, lines 108-109: take the lock, test whether the session exists.
AddMessageEnter(t) ==
    /\ pc[t] = "built"
    /\ CanAcquire(t)
    /\ lock' = Acquired(t)
    /\ frame' = [frame EXCEPT ![t].pre = sessions]
    /\ pc' = [pc EXCEPT ![t] =
                 IF frame[t].sid \notin DOMAIN sessions THEN "add_message_create"
                 ELSE "add_message_append"]
    /\ UNCHANGED <<sessions, now, max_conversation_history, uuid_count, built, acked,
                   event_loop, cleanup_task, error_log,
                   request, sleep_until, slept_from>>

\* add_message, line 110: the nested create_session takes the lock a second
\* time (line 65).
AddMessageCreate(t) ==
    /\ pc[t] = "add_message_create"
    /\ CanAcquire(t)
    /\ lock' = Acquired(t)
    /\ pc' = [pc EXCEPT ![t] = "create_session"]
    /\ UNCHANGED <<sessions, now, max_conversation_history, frame, uuid_count,
                   built, acked,
                   event_loop, cleanup_task, error_log,
                   request, sleep_until, slept_from>>

\* add_message, lines 112-113.  self._sessions[session_id] raises KeyError
\* when the id is not a key.
AddMessageAppend(t) ==
    /\ pc[t] = "add_message_append"
    /\ IF frame[t].sid \in DOMAIN sessions
       THEN /\ sessions' = append_and_touch(sessions, frame[t].sid, frame[t].msg, now)
            /\ acked' = [acked EXCEPT ![frame[t].sid] = Append(@, frame[t].msg)]
            /\ pc' = [pc EXCEPT ![t] = "add_message_trim"]
            /\ frame' = frame
       ELSE /\ sessions' = sessions
            /\ acked' = acked
            /\ pc' = [pc EXCEPT ![t] = "raise"]
            /\ frame' = [frame EXCEPT ![t].ret = "KeyError"]
    /\ UNCHANGED <<lock, now, max_conversation_history, uuid_count, built,
                   event_loop, cleanup_task, error_log,
                   request, sleep_until, slept_from>>

\* add_message, lines 116-119.  self._sessions[session_id] raises KeyError
\* when the id is not a key.
AddMessageTrim(t) ==
    /\ pc[t] = "add_message_trim"
    /\ IF frame[t].sid \in DOMAIN sessions
       THEN /\ sessions' = trim(sessions, frame[t].sid, max_conversation_history)
            /\ pc' = [pc EXCEPT ![t] = "return"]
            /\ frame' = frame
       ELSE /\ sessions' = sessions
            /\ pc' = [pc EXCEPT ![t] = "raise"]
            /\ frame' = [frame EXCEPT ![t].ret = "KeyError"]
    /\ UNCHANGED <<lock, now, max_conversation_history, uuid_count, built, acked,
                   event_loop, cleanup_task, error_log,
                   request, sleep_until, slept_from>>

\* The end of the with-block, by return or by an exception (which leaves
\* every with-block the thread is in): the lock is released and the caller
\* has its answer.
Exit(t) ==
    /\ pc[t] \in {"return", "raise"}
    /\ lock' = IF pc[t] = "raise" THEN FreeLock ELSE Released(t)
    /\ pc' = [pc EXCEPT ![t] = "idle"]
    /\ frame' = [frame EXCEPT ![t] = IdleFrame]
    /\ UNCHANGED <<sessions, now, max_conversation_history, uuid_count, built,
                   acked,
                   event_loop, cleanup_task, error_log,
                   request, sleep_until, slept_from>>

\* _periodic_cleanup, lines 45-46: the sleep is over and the task calls
\* cleanup_expired_sessions, which takes the lock (line 157).
PeriodicCleanupSweep ==
    /\ cleanup_task = "running"
    /\ pc[Scheduler] = "idle"
    /\ now >= sleep_until
    /\ CanAcquire(Scheduler)
    /\ lock' = Acquired(Scheduler)
    /\ pc' = [pc EXCEPT ![Scheduler] = "cleanup_expired_sessions"]
    /\ frame' = [frame EXCEPT ![Scheduler] =
                    Call("cleanup_expired_sessions", None, NoMessage)]
    /\ UNCHANGED <<sessions, now, max_conversation_history, uuid_count, built,
                   acked, event_loop, cleanup_task, error_log,
                   request, sleep_until, slept_from>>

\* An error in the sweep of the task (timedelta of line 159 overflowing, no
\* memory for the list of line 161): it leaves the with-block.
SweepFault(B) ==
    /\ pc[Scheduler] = "cleanup_expired_sessions"
    /\ error_log < B.max_faults
    /\ pc' = [pc EXCEPT ![Scheduler] = "raise"]
    /\ frame' = [frame EXCEPT ![Scheduler].ret = "Exception"]
    /\ UNCHANGED <<sessions, lock, now, max_conversation_history, uuid_count,
                   built, acked, event_loop, cleanup_task, error_log,
                   request, sleep_until, slept_from>>

\* _periodic_cleanup, lines 46-49: the sweep has returned, or has raised an
\* Exception, which is caught and logged; the while loop takes its next turn
\* and sleeps again.
PeriodicCleanupTurnEnds(B) ==
    /\ pc[Scheduler] \in {"return", "raise"}
    /\ lock' = IF pc[Scheduler] = "raise" THEN FreeLock ELSE Released(Scheduler)
    /\ cleanup_task' = after_tick(cleanup_task,
                           IF pc[Scheduler] = "raise" THEN "Exception" ELSE "ok")
    /\ error_log' = IF pc[Scheduler] = "raise" THEN error_log + 1 ELSE error_log
    /\ pc' = [pc EXCEPT ![Scheduler] = "idle"]
    /\ frame' = [frame EXCEPT ![Scheduler] = IdleFrame]
    /\ slept_from' = now
    /\ sleep_until' = call_later(now, B.interval)
    /\ UNCHANGED <<sessions, now, max_conversation_history, uuid_count, built,
                   acked, event_loop, request>>

\* Task.cancel(), called on the task when the event loop shuts down: the
\* task is to get CancelledError at its next await.
CancelTask ==
    /\ cleanup_task = "running"
    /\ cleanup_task' = "cancelling"
    /\ UNCHANGED <<sessions, lock, now, max_conversation_history, pc, frame,
                   uuid_count, built, acked, event_loop, error_log,
                   request, sleep_until, slept_from>>

\* _periodic_cleanup, lines 45 and 47-48: asyncio.sleep raises
\* CancelledError in a cancelled task, and the loop breaks.
PeriodicCleanupCancelled ==
    /\ cleanup_task = "cancelling"
    /\ pc[Scheduler] = "idle"
    /\ cleanup_task' = after_tick(cleanup_task, "CancelledError")
    /\ UNCHANGED <<sessions, lock, now, max_conversation_history, pc, frame,
                   uuid_count, built, acked, event_loop, error_log,
                   request, sleep_until, slept_from>>

\* The steps of the task of _periodic_cleanup.
PeriodicCleanup(B) ==
    \/ PeriodicCleanupSweep
    \/ SweepFault(B)
    \/ CleanupScan(Scheduler, B)
    \/ CleanupDelete(Scheduler)
    \/ CleanupReturn(Scheduler)
    \/ PeriodicCleanupTurnEnds(B)
    \/ PeriodicCleanupCancelled

\* The steps of a caller that is inside a with-block, up to its release
\* of the lock.
InBlockStep(t, B) ==
    \/ CreateCheck(t)
    \/ CreateTouch(t)
    \/ CreateNew(t, B)
    \/ GetConversationHistory(t)
    \/ SessionExists(t)
    \/ GetSessionInfo(t)
    \/ GetActiveSessionCount(t)
    \/ ClearSession(t)
    \/ CleanupScan(t, B)
    \/ CleanupDelete(t)
    \/ CleanupReturn(t)
    \/ AddMessageCreate(t)
    \/ AddMessageAppend(t)
    \/ AddMessageTrim(t)
    \/ Exit(t)

NextOf(B) ==
    \/ Tick(B)
    \/ \E t \in B.threads :
          \/ Enter(t, B)
          \/ BuildMessage(t, B)
          \/ AddMessageEnter(t)
          \/ InBlockStep(t, B)

Init == InitOf(Lifecycle)
Next == NextOf(Lifecycle)
Spec == Init /\ [][Next]_vars

InitHistory == InitOf(History)
NextHistory == NextOf(History)
SpecHistory == InitHistory /\ [][NextHistory]_vars

InitConc == InitOf(Concurrent)
NextConc == NextOf(Concurrent)
SpecConc == InitConc /\ [][NextConc]_vars

InitSched == InitOf(Scheduled)
NextSched == NextOf(Scheduled) \/ PeriodicCleanup(Scheduled) \/ CancelTask
SpecSched == InitSched /\ [][NextSched]_vars

\* SpecSched with the scheduling the code runs under.  A thread inside a
\* with-block runs on to its end: the blocks have no waits and their loops
\* are bounded.  The task runs on likewise, and its blocking acquire of the
\* lock (line 157) succeeds in the end when the lock is free again and again.
\* Every step of a block and of the task changes one of progress.
progress == <<pc, sessions, lock, cleanup_task>>
FairSched ==
    /\ \A t \in Scheduled.threads : WF_progress(InBlockStep(t, Scheduled))
    /\ WF_progress(PeriodicCleanup(Scheduled))
    /\ SF_progress(PeriodicCleanupSweep)
SpecSchedLive == SpecSched /\ FairSched

\* The scenario of SpecTimed: the sleep of the task takes time.
TimedInterval == 1
TimedMaxTime == 3
TimedMaxMsgs == 1
TimedMaxFaults == 1
TimedTimeout == 0
Timed ==
    [threads |-> {1}, ids |-> {"a"}, max_uuids |-> 0,
     max_time |-> TimedMaxTime, max_msgs |-> TimedMaxMsgs, windows |-> {1},
     timeout |-> TimedTimeout, roles |-> {"user"}, loops |-> {"running"},
     max_faults |-> TimedMaxFaults, interval |-> TimedInterval]

InitTimed == InitOf(Timed)
NextTimed == NextOf(Timed) \/ PeriodicCleanup(Timed) \/ CancelTask
SpecTimed == InitTimed /\ [][NextTimed]_vars

Adds == {"add_user_message", "add_assistant_message"}

\* ---------------------------------------------------------------- handlers
\* The handlers of api/routes.py (chat_endpoint, get_session_info,
\* clear_session, health_check) and of main.py (process_chat).  A handler is a
\* straight line of statements; request[t].stage is the statement thread t is
\* about to run, and a store operation it calls runs as the steps above.

\* The scenario of SpecRouter: requests are served one after the other while
\* the task sweeps.  Every handler is an `async def` that never suspends (the
\* only await of chat_endpoint and of health_check raises at once, and
\* process_chat awaits nothing), so the event loop runs a handler from its
\* first statement to its answer before it starts the next; the sweep of
\* the task is let in between any two statements of a handler, which covers
\* a task that runs on another loop.  max_concurrent_sessions is
\* settings.max_concurrent_sessions.
RouterMaxTime == 1
RouterMaxMsgs == 2
RouterMaxUuids == 1
RouterMaxSessions == 1
RouterTimeout == 0
Routed ==
    [threads |-> {1}, ids |-> {"a", "b"}, max_uuids |-> RouterMaxUuids,
     max_time |-> RouterMaxTime, max_msgs |-> RouterMaxMsgs, windows |-> {2},
     timeout |-> RouterTimeout, roles |-> Roles, loops |-> {"running"},
     max_faults |-> 0, interval |-> 0,
     max_concurrent_sessions |-> RouterMaxSessions]

ChatEntries == {"chat_endpoint", "process_chat"}
SessionEntries == {"get_session_info", "clear_session"}

\* The methods class OpenAIService defines (openai_service.py, lines 18-138).
OpenAIServiceMethods ==
    {"__init__", "_validate_configuration", "check_connectivity",
     "_format_conversation_history", "generate_response"}

\* chat_endpoint admits every request.
admitted_always(active_sessions, max) == TRUE

\* routes.py, line 102, negated: the request goes on to create_session.
admitted(active_sessions, max) == ~(active_sessions >= max)

\* An await that takes any value for the result it waits for.
await_any(kind) == "ok"

\* `await value`: a value that is not awaitable raises TypeError.  Lines 52
\* and 123 of routes.py await what check_connectivity and generate_response
\* return: both are plain functions (openai_service.py, lines 32 and 66),
\* returning a bool and a dict.
await(kind) == IF kind \in {"coroutine", "Task", "Future"} THEN "ok" ELSE "TypeError"

\* A history that is a view of the stored list: it shows what the session
\* holds when it is looked at.
conversation_history_view(r, S, window) ==
    get_conversation_history(S, r.sid, window)

\* The conversation_history the handler passes on (routes.py, line 125):
\* the list get_conversation_history returned, which is a slice of the
\* stored list (session_manager.py, line 98) and so a list of its own.
conversation_history(r, S, window) == r.history

\* generate_response, openai_service.py, lines 87-89.
current_messages(history, user_message) ==
    Append(history, ChatMessage("user", user_message, 0))

\* _format_conversation_history, openai_service.py, lines 42-64: the system
\* message, then role and content of every message.
format_conversation_history(messages) ==
    <<[role |-> "system", content |-> 0]>>
    \o [i \in 1 .. Len(messages) |->
           [role |-> messages[i].role, content |-> messages[i].content]]

\* The reply generate_response makes up for the message text.
Reply(text) == 0 - text

\* The handler answers and is done.
Answer(r, status_code, body) ==
    [r EXCEPT !.stage = "done", !.status_code = status_code, !.body = body]

\* The except clauses of the handlers: `except Exception` of chat_endpoint
\* (routes.py, lines 147-152), get_session_info (174-179) and clear_session
\* (201-206) answers 500, that of health_check (lines 77-88) "unhealthy" and
\* 503, that of process_chat (main.py, lines 115-117) returns an apology.
failed(r) ==
    CASE r.entry = "process_chat" -> Answer(r, 0, "I'm sorry, an error occurred")
      [] r.entry = "health_check" ->
            [Answer(r, 503, "unhealthy") EXCEPT !.openai_status = "unknown"]
      [] OTHER -> Answer(r, 500, "Internal server error")

\* The first statement of a handler.
first_stage(entry) ==
    CASE entry = "chat_endpoint" -> "get_active_session_count"
      [] entry = "process_chat" -> "create_session"
      [] entry = "health_check" -> "check_connectivity"
      [] OTHER -> entry

\* A chat handler that calls generation before it records the user message.
after_history_generate_first(r) == [r EXCEPT !.stage = "get_context"]

\* routes.py, lines 113-116, main.py, lines 93-96: the history is fetched and
\* then the user message is recorded.
after_history(r) == [r EXCEPT !.stage = "add_user_message"]

\* get_session_info of routes.py without the test of line 163.
session_info_answer_ok(r, found) == Answer(r, 200, "session_info")

\* get_session_info, routes.py, lines 162-171: 404 when the store returned
\* None, the record otherwise.
session_info_answer(r, found) ==
    IF found THEN Answer(r, 200, "session_info")
    ELSE Answer(r, 404, "Session not found")

\* What a handler does with the value a store operation returned (how =
\* "return") or with the exception it raised (how = "raise").  found tells
\* whether get_session_info returned a record: it returns None exactly for
\* an id that is not a key (session_manager.py, line 140).
resumed(r, how, ret, found, max) ==
    IF how = "raise" THEN failed(r)
    ELSE CASE r.stage = "get_active_session_count" ->
                 IF admitted(ret, max) THEN [r EXCEPT !.stage = "create_session"]
                 ELSE Answer(r, 429, "Maximum number of concurrent sessions reached")
           [] r.stage = "create_session" ->
                 [r EXCEPT !.sid = ret, !.stage = "get_conversation_history"]
           [] r.stage = "get_conversation_history" ->
                 after_history([r EXCEPT !.history = ret])
           [] r.stage = "add_user_message" -> [r EXCEPT !.stage = "get_context"]
           [] r.stage = "add_assistant_message" ->
                 Answer(r, IF r.entry = "chat_endpoint" THEN 200 ELSE 0, "reply")
           [] r.stage = "get_session_info" -> session_info_answer(r, found)
           [] r.stage = "clear_session" ->
                 IF ret THEN Answer(r, 200, "Session cleared successfully")
                 ELSE Answer(r, 404, "Session not found")

\* The requests under way that will make create_session generate an id.
ToGenerate ==
    {t \in Threads :
        /\ request[t].stage \in {"get_active_session_count", "create_session"}
        /\ Generates(request[t].session_id)}

Serving(t) == request[t].stage # "none"

\* A chat request arrives: POST /chat with a ChatRequest (models/chat.py,
\* lines 17-20: session_id is optional), or a message submitted to the
\* Gradio interface (main.py, lines 188-193).
ChatArrives(t, B) ==
    /\ pc[t] = "idle"
    /\ ~Serving(t)
    /\ built < B.max_msgs
    /\ \E entry \in ChatEntries, session_id \in B.ids \cup {None} :
          /\ Generates(session_id)
                => uuid_count + Cardinality(ToGenerate) < B.max_uuids
          /\ request' = [request EXCEPT ![t] =
                [NoRequest EXCEPT !.entry = entry, !.stage = first_stage(entry),
                                  !.session_id = session_id, !.text = built + 1]]
    /\ built' = built + 1
    /\ UNCHANGED <<sessions, lock, now, max_conversation_history, pc, frame,
                   uuid_count, acked, event_loop, cleanup_task, error_log,
                   sleep_until, slept_from>>

\* GET or DELETE /sessions/{session_id} arrives.
SessionRequestArrives(t, B) ==
    /\ pc[t] = "idle"
    /\ ~Serving(t)
    /\ \E entry \in SessionEntries, session_id \in B.ids :
          request' = [request EXCEPT ![t] =
                [NoRequest EXCEPT !.entry = entry, !.stage = first_stage(entry),
                                  !.session_id = session_id, !.sid = session_id]]
    /\ UNCHANGED <<sessions, lock, now, max_conversation_history, pc, frame,
                   uuid_count, built, acked, event_loop, cleanup_task,
                   error_log, sleep_until, slept_from>>

\* The argument of the store operation the handler is about to call.
Argument(r) ==
    CASE r.stage = "get_active_session_count" -> None
      [] r.stage = "create_session" -> r.session_id
      [] OTHER -> r.sid

\* The handler calls a store operation that takes the lock first thing.
HandlerCall(t) ==
    /\ pc[t] = "idle"
    /\ request[t].stage \in {"get_active_session_count", "create_session",
                             "get_conversation_history", "get_session_info",
                             "clear_session"}
    /\ CanAcquire(t)
    /\ lock' = Acquired(t)
    /\ pc' = [pc EXCEPT ![t] = request[t].stage]
    /\ frame' = [frame EXCEPT ![t] =
                    Call(request[t].stage, Argument(request[t]), NoMessage)]
    /\ request' = [request EXCEPT ![t].calls = Append(@, request[t].stage)]
    /\ UNCHANGED <<sessions, now, max_conversation_history, uuid_count, built,
                   acked, event_loop, cleanup_task, error_log,
                   sleep_until, slept_from>>

\* The handler calls add_user_message (routes.py, line 116, main.py, line 96)
\* or add_assistant_message (line 130, line 110): the ChatMessage is built
\* and stamped before add_message is called.
HandlerBuild(t) ==
    /\ pc[t] = "idle"
    /\ request[t].stage \in Adds
    /\ pc' = [pc EXCEPT ![t] = "built"]
    /\ frame' = [frame EXCEPT ![t] =
          Pending(request[t].stage, request[t].sid,
                  IF request[t].stage = "add_user_message"
                  THEN ChatMessage("user", request[t].text, now)
                  ELSE ChatMessage("assistant", Reply(request[t].text), now))]
    /\ request' = [request EXCEPT ![t].calls = Append(@, request[t].stage)]
    /\ UNCHANGED <<sessions, lock, now, max_conversation_history, uuid_count,
                   built, acked, event_loop, cleanup_task, error_log,
                   sleep_until, slept_from>>

\* The store operation ends, by return or by an exception: the lock is
\* released and the handler goes on with what it got.
HandlerResume(t, B) ==
    /\ pc[t] \in {"return", "raise"}
    /\ request[t].stage \notin {"none", "done"}
    /\ lock' = IF pc[t] = "raise" THEN FreeLock ELSE Released(t)
    /\ pc' = [pc EXCEPT ![t] = "idle"]
    /\ request' = [request EXCEPT ![t] =
          resumed(request[t], pc[t], frame[t].ret,
                  frame[t].sid \in DOMAIN sessions, B.max_concurrent_sessions)]
    /\ frame' = [frame EXCEPT ![t] = IdleFrame]
    /\ UNCHANGED <<sessions, now, max_conversation_history, uuid_count, built,
                   acked, event_loop, cleanup_task, error_log,
                   sleep_until, slept_from>>

\* routes.py, lines 119-120, main.py, lines 99-100: retrieval returns a
\* context or raises.
GetContext(t) ==
    /\ pc[t] = "idle"
    /\ request[t].stage = "get_context"
    /\ \E outcome \in {"ok", "Exception"} :
          request' = [request EXCEPT ![t] =
                IF outcome = "ok" THEN [@ EXCEPT !.stage = "generate_response"]
                ELSE failed(@)]
    /\ UNCHANGED <<sessions, lock, now, max_conversation_history, pc, frame,
                   uuid_count, built, acked, event_loop, cleanup_task,
                   error_log, sleep_until, slept_from>>

\* The generation call.  chat_endpoint calls generate_response (routes.py,
\* line 123), which returns a reply or raises (openai_service.py, lines
\* 124-138).  process_chat calls _process_chat_gpu, which looks up
\* generate_response_sync (main.py, line 65): AttributeError for a name the
\* class does not define.  generate_response puts the messages it sends
\* together (lines 87-92) before it calls the service.
GenerateResponse(t) ==
    /\ pc[t] = "idle"
    /\ request[t].stage = "generate_response"
    /\ LET method == IF request[t].entry = "chat_endpoint"
                     THEN "generate_response" ELSE "generate_response_sync"
           r == request[t]
           prompt == IF method \in OpenAIServiceMethods
                     THEN format_conversation_history(
                             current_messages(
                                conversation_history(r, sessions,
                                                     max_conversation_history),
                                r.text))
                     ELSE << >>
       IN  \E outcome \in {"reply", "Exception"} :
              request' = [request EXCEPT ![t] =
                 IF method \notin OpenAIServiceMethods \/ outcome = "Exception"
                 THEN [failed(r) EXCEPT !.prompt = prompt]
                 ELSE [r EXCEPT !.generated = TRUE, !.prompt = prompt,
                                !.stage = IF r.entry = "chat_endpoint"
                                          THEN "await"
                                          ELSE "add_assistant_message"]]
    /\ UNCHANGED <<sessions, lock, now, max_conversation_history, pc, frame,
                   uuid_count, built, acked, event_loop, cleanup_task,
                   error_log, sleep_until, slept_from>>

\* routes.py, line 123: chat_endpoint awaits the dict generate_response
\* returned.
Await(t) ==
    /\ pc[t] = "idle"
    /\ request[t].stage = "await"
    /\ request' = [request EXCEPT ![t] =
          IF await("dict") = "ok" THEN [@ EXCEPT !.stage = "add_assistant_message"]
          ELSE failed(@)]
    /\ UNCHANGED <<sessions, lock, now, max_conversation_history, pc, frame,
                   uuid_count, built, acked, event_loop, cleanup_task,
                   error_log, sleep_until, slept_from>>

\* GET /health arrives.
HealthArrives(t) ==
    /\ pc[t] = "idle"
    /\ ~Serving(t)
    /\ request' = [request EXCEPT ![t] =
          [NoRequest EXCEPT !.entry = "health_check",
                            !.stage = first_stage("health_check")]]
    /\ UNCHANGED <<sessions, lock, now, max_conversation_history, pc, frame,
                   uuid_count, built, acked, event_loop, cleanup_task,
                   error_log, sleep_until, slept_from>>

\* health_check, routes.py, lines 52-75: check_connectivity returns True, or
\* False when the service cannot be reached (openai_service.py, lines 32-40);
\* the handler awaits the bool, and answers by what it got.
HealthCheck(t) ==
    /\ pc[t] = "idle"
    /\ request[t].stage = "check_connectivity"
    /\ \E openai_connected \in BOOLEAN :
          request' = [request EXCEPT ![t] =
             IF await("bool") # "ok"
             THEN [failed(@) EXCEPT !.connected = openai_connected]
             ELSE [Answer(@, IF openai_connected THEN 200 ELSE 503,
                          IF openai_connected THEN "healthy" ELSE "degraded")
                      EXCEPT !.connected = openai_connected,
                             !.openai_status = IF openai_connected
                                               THEN "connected"
                                               ELSE "disconnected"]]
    /\ UNCHANGED <<sessions, lock, now, max_conversation_history, pc, frame,
                   uuid_count, built, acked, event_loop, cleanup_task,
                   error_log, sleep_until, slept_from>>

\* The handler returns, or raises the HTTPException it built: the answer
\* goes to the client.
Respond(t) ==
    /\ request[t].stage = "done"
    /\ request' = [request EXCEPT ![t] = NoRequest]
    /\ UNCHANGED <<sessions, lock, now, max_conversation_history, pc, frame,
                   uuid_count, built, acked, event_loop, cleanup_task,
                   error_log, sleep_until, slept_from>>

\* The steps of a store operation a handler has called.
HandlerBlockStep(t, B) ==
    \/ CreateCheck(t)
    \/ CreateTouch(t)
    \/ CreateNew(t, B)
    \/ GetConversationHistory(t)
    \/ GetSessionInfo(t)
    \/ GetActiveSessionCount(t)
    \/ ClearSession(t)
    \/ AddMessageEnter(t)
    \/ AddMessageCreate(t)
    \/ AddMessageAppend(t)
    \/ AddMessageTrim(t)

\* The steps of a handler.
Handler(t, B) ==
    \/ ChatArrives(t, B)
    \/ SessionRequestArrives(t, B)
    \/ HealthArrives(t)
    \/ HandlerCall(t)
    \/ HandlerBuild(t)
    \/ HandlerBlockStep(t, B)
    \/ HandlerResume(t, B)
    \/ GetContext(t)
    \/ GenerateResponse(t)
    \/ Await(t)
    \/ HealthCheck(t)
    \/ Respond(t)

\* The turns of the task that neither fail nor are cancelled.
Sweeps(B) ==
    \/ PeriodicCleanupSweep
    \/ CleanupScan(Scheduler, B)
    \/ CleanupDelete(Scheduler)
    \/ CleanupReturn(Scheduler)
    \/ PeriodicCleanupTurnEnds(B)

\* The scenario of SpecChat: a conversation of several messages in one
\* session, under the default of settings.max_concurrent_sessions.
max_concurrent_sessions == 10
ChatMaxTime == 1
ChatMaxMsgs == 2
ChatTimeout == 0
Conversation ==
    [threads |-> {1}, ids |-> {"a"}, max_uuids |-> 0,
     max_time |-> ChatMaxTime, max_msgs |-> ChatMaxMsgs, windows |-> {1, 2},
     timeout |-> ChatTimeout, roles |-> Roles, loops |-> {"running"},
     max_faults |-> 0, interval |-> 0,
     max_concurrent_sessions |-> max_concurrent_sessions]

InitChat == InitOf(Conversation)
NextChat ==
    \/ Tick(Conversation)
    \/ \E t \in Conversation.threads : Handler(t, Conversation)
    \/ Sweeps(Conversation)
SpecChat == InitChat /\ [][NextChat]_vars

InitRouter == InitOf(Routed)
NextRouter ==
    \/ Tick(Routed)
    \/ \E t \in Routed.threads : Handler(t, Routed)
    \/ Sweeps(Routed)
SpecRouter == InitRouter /\ [][NextRouter]_vars

\* ------------------------------------------------------------- vocabulary
W == max_conversation_history

\* Thread t has run the block of one of ops and is about to return from it:
\* sessions is the store the call leaves, frame[t].pre the store it found.
Returning(t, ops) == pc[t] = "return" /\ frame[t].op \in ops

\* Thread t's call of one of ops has ended, by return or by an exception.
Ending(t, ops) == pc[t] \in {"return", "raise"} /\ frame[t].op \in ops

Min(a, b) == IF a <= b THEN a ELSE b
LastN(seq, n) == SubSeq(seq, Len(seq) - n + 1, Len(seq))
IsSuffix(s, full) == Len(s) <= Len(full) /\ s = LastN(full, Len(s))
Occurrences(seq, m) == Cardinality({i \in 1 .. Len(seq) : seq[i] = m})
StoredCount(S, sid) == IF sid \in DOMAIN S THEN Len(S[sid].messages) ELSE 0

\* The append calls on sid that are under way.
InFlight(sid) ==
    {t \in Threads : pc[t] # "idle" /\ frame[t].op \in Adds /\ frame[t].sid = sid}

\* No call is inside a with-block: the store as the next call will find it.
AtRest == lock.owner = NoThread

\* -------------------------------------------------------------- properties
\* C1: when every append call on a session has returned, and N <= 2*W
\* appends were made since the session was last deleted (W >= 1), the
\* session holds exactly N messages and each appended message exactly once,
\* however the calls of the callers interleaved.
C1_NoAppendLost ==
    \A sid \in DOMAIN acked :
        (/\ W >= 1
         /\ InFlight(sid) = {}
         /\ Len(acked[sid]) >= 1
         /\ Len(acked[sid]) <= 2 * W)
        => /\ sid \in DOMAIN sessions
           /\ Len(sessions[sid].messages) = Len(acked[sid])
           /\ \A i \in 1 .. Len(acked[sid]) :
                 Occurrences(sessions[sid].messages, acked[sid][i]) = 1

\* Two appends on one session overlapped (the message built second was
\* stored first) and both have returned.
C1_Witness ==
    \E sid \in DOMAIN sessions :
        /\ W >= 1
        /\ InFlight(sid) = {}
        /\ Len(acked[sid]) = 2
        /\ Len(sessions[sid].messages) = 2
        /\ sessions[sid].messages[1].content > sessions[sid].messages[2].content

\* C2: for W >= 1 no session ever holds more than 2*W messages when the
\* store is at rest, and get_session_info never reports a message_count
\* above 2*W.
C2_HardCap ==
    W >= 1 =>
        /\ AtRest => \A sid \in DOMAIN sessions :
                        Len(sessions[sid].messages) <= 2 * W
        /\ \A t \in Threads :
              (Returning(t, {"get_session_info"}) /\ frame[t].sid \in DOMAIN sessions)
              => frame[t].ret.message_count <= 2 * W

\* get_session_info reports a session that is exactly at the cap, after a
\* trim has happened in it.
C2_Witness ==
    \E t \in Threads :
        /\ W >= 1
        /\ Returning(t, {"get_session_info"})
        /\ frame[t].sid \in DOMAIN sessions
        /\ frame[t].ret.message_count = 2 * W
        /\ Len(acked[frame[t].sid]) > 2 * W

\* C3: for W >= 1 get_conversation_history of an existing session with n
\* stored messages returns the last min(n, W) of them in stored order; once
\* at least W messages were appended since the session was created these are
\* the W most recently appended, oldest first.
C3_HistoryWindow ==
    \A t \in Threads :
        (/\ Returning(t, {"get_conversation_history"})
         /\ W >= 1
         /\ frame[t].sid \in DOMAIN sessions)
        => LET msgs == sessions[frame[t].sid].messages
               log == acked[frame[t].sid]
           IN  /\ frame[t].ret = LastN(msgs, Min(Len(msgs), W))
               /\ Len(log) >= W
                  => /\ Len(frame[t].ret) = W
                     /\ \A i \in 1 .. W :
                           frame[t].ret[i] = log[Len(log) - W + i]

\* A read that returns fewer messages than are stored, of a session to which
\* W + 3 messages were appended.
C3_Witness ==
    \E t \in Threads :
        /\ Returning(t, {"get_conversation_history"})
        /\ W >= 1
        /\ frame[t].sid \in DOMAIN sessions
        /\ Len(frame[t].ret) = W
        /\ Len(sessions[frame[t].sid].messages) > W
        /\ Len(acked[frame[t].sid]) >= W + 3

C5_AppendOnly ==
    \A t \in Threads :
        pc[t] = "return"
        => \A sid \in (DOMAIN frame[t].pre) \cap (DOMAIN sessions) :
              LET old == frame[t].pre[sid].messages
                  new == sessions[sid].messages
              IN  IF frame[t].op \in Adds /\ frame[t].sid = sid
                  THEN /\ IsSuffix(new, Append(old, frame[t].msg))
                       /\ new # << >>
                       /\ new[Len(new)] = frame[t].msg
                  ELSE new = old

\* An append that trimmed returns: messages were dropped and others kept.
C5_Witness ==
    \E t \in Threads :
        /\ Returning(t, Adds)
        /\ frame[t].sid \in (DOMAIN frame[t].pre) \cap (DOMAIN sessions)
        /\ Len(sessions[frame[t].sid].messages)
              < Len(frame[t].pre[frame[t].sid].messages)
        /\ Len(sessions[frame[t].sid].messages) >= 2

\* C6: the messages of every session are stored in non-decreasing order of
\* their timestamps.
C6_Chronological ==
    \A sid \in DOMAIN sessions :
        \A i \in 1 .. Len(sessions[sid].messages) - 1 :
            sessions[sid].messages[i].timestamp
                <= sessions[sid].messages[i + 1].timestamp

\* C7: an append to an id that is not in the store ends by returning, and
\* then the id is in the store with one message, the one given.
C7_ImplicitCreate ==
    \A t \in Threads :
        (Ending(t, Adds) /\ frame[t].sid \notin DOMAIN frame[t].pre)
        => /\ pc[t] = "return"
           /\ session_exists(sessions, frame[t].sid)
           /\ get_session_info(sessions, frame[t].sid).message_count = 1
           /\ get_conversation_history(sessions, frame[t].sid, W)
                 = << frame[t].msg >>

\* C8: create_session on an id in the store returns the id and changes
\* nothing but that session's last_activity, which does not decrease.
C8_TouchExisting ==
    \A t \in Threads :
        (Returning(t, {"create_session"}) /\ frame[t].sid \in DOMAIN frame[t].pre)
        => LET sid == frame[t].sid
               pre == frame[t].pre
           IN  /\ frame[t].ret = sid
               /\ DOMAIN sessions = DOMAIN pre
               /\ sessions[sid].created_at = pre[sid].created_at
               /\ sessions[sid].messages = pre[sid].messages
               /\ sessions[sid].last_activity >= pre[sid].last_activity
               /\ \A other \in (DOMAIN pre) \ {sid} : sessions[other] = pre[other]

\* A touch of a session that holds a message, at a later time than its
\* last activity.
C8_Witness ==
    \E t \in Threads :
        /\ Returning(t, {"create_session"})
        /\ frame[t].sid \in DOMAIN frame[t].pre
        /\ frame[t].pre[frame[t].sid].messages # << >>
        /\ sessions[frame[t].sid].last_activity
              > frame[t].pre[frame[t].sid].last_activity

\* C9: create_session on an id string that is not in the store returns that
\* id and leaves a session with no messages stored under it.
C9_CreatesUnderGivenId ==
    \A t \in Threads :
        (/\ Returning(t, {"create_session"})
         /\ frame[t].sid # None
         /\ frame[t].sid \notin DOMAIN frame[t].pre)
        => /\ frame[t].ret = frame[t].sid
           /\ session_exists(sessions, frame[t].sid)
           /\ sessions[frame[t].sid].messages = << >>

\* C10: create_session without an id never raises, returns an id that was
\* not in the store and is in it now, and leaves every session it found as
\* it was: the store has one session more.
C10_FreshSession ==
    \A t \in Threads :
        (frame[t].op = "create_session" /\ frame[t].sid = None)
        => /\ pc[t] # "raise"
           /\ pc[t] = "return"
              => /\ frame[t].ret \notin DOMAIN frame[t].pre
                 /\ session_exists(sessions, frame[t].ret)
                 /\ get_active_session_count(sessions)
                       = get_active_session_count(frame[t].pre) + 1
                 /\ \A sid \in DOMAIN frame[t].pre :
                       /\ sid \in DOMAIN sessions
                       /\ sessions[sid] = frame[t].pre[sid]

\* create_session without an id returns in a store that already held a
\* session a caller had named, with a message in it.
C10_Witness ==
    \E t \in Threads :
        /\ Returning(t, {"create_session"})
        /\ frame[t].sid = None
        /\ "a" \in DOMAIN frame[t].pre
        /\ frame[t].pre["a"].messages # << >>

\* The operations that only read the store.
IdReads == {"get_conversation_history", "session_exists", "get_session_info"}
Reads == IdReads \cup {"get_active_session_count"}

\* C11: a read of an id that is not in the store (never created, or created
\* and since cleared or swept) does not raise: session_exists returns false,
\* get_conversation_history the empty sequence, get_session_info None.
C11_AbsentReads ==
    \A t \in Threads :
        frame[t].op \in IdReads
        => /\ pc[t] # "raise"
           /\ (pc[t] = "return" /\ frame[t].sid \notin DOMAIN frame[t].pre)
              => CASE frame[t].op = "session_exists" -> frame[t].ret = FALSE
                   [] frame[t].op = "get_conversation_history" -> frame[t].ret = << >>
                   [] frame[t].op = "get_session_info" -> frame[t].ret = None

\* get_session_info returns for a generated id, which was in the store when
\* it was handed out and has been cleared or swept since.
C11_Witness ==
    \E t \in Threads :
        /\ Returning(t, {"get_session_info"})
        /\ frame[t].sid \in IssuedUuids
        /\ frame[t].sid \notin DOMAIN frame[t].pre

\* C12: get_conversation_history, get_session_info, session_exists and
\* get_active_session_count leave the store exactly as they found it, also
\* for an id that is not in it.
C12_ReadsChangeNothing ==
    \A t \in Threads : Returning(t, Reads) => sessions = frame[t].pre

\* get_conversation_history returns for an id that is not in the store,
\* while another session is.
C12_Witness ==
    \E t \in Threads :
        /\ Returning(t, {"get_conversation_history"})
        /\ frame[t].sid \notin DOMAIN frame[t].pre
        /\ frame[t].pre # EmptyStore

\* C13: clear_session returns true exactly when the id was in the store; then
\* the store it leaves is the store it found without that session; when the
\* id was not in the store, the store is as it was.
C13_ClearExactlyOne ==
    \A t \in Threads :
        Returning(t, {"clear_session"})
        => LET sid == frame[t].sid
               pre == frame[t].pre
           IN  /\ frame[t].ret = (sid \in DOMAIN pre)
               /\ ~session_exists(sessions, sid)
               /\ DOMAIN sessions = (DOMAIN pre) \ {sid}
               /\ \A other \in DOMAIN sessions : sessions[other] = pre[other]

\* clear_session returns true and another session stays.
C13_Witness ==
    \E t \in Threads :
        /\ Returning(t, {"clear_session"})
        /\ frame[t].ret = TRUE
        /\ sessions # EmptyStore

\* C14: cleanup_expired_sessions, reading the clock as T, removes exactly the
\* sessions with T - last_activity > session_timeout and returns how many
\* they are; every other session, one idle for exactly the timeout included,
\* stays as it was.
C14_SweepExactlyExpired ==
    \A t \in Threads :
        Returning(t, {"cleanup_expired_sessions"})
        => LET pre == frame[t].pre
               T == frame[t].current_time
               old == {sid \in DOMAIN pre :
                          T - pre[sid].last_activity > Lifecycle.timeout}
           IN  /\ DOMAIN sessions = (DOMAIN pre) \ old
               /\ frame[t].ret = Cardinality(old)
               /\ \A sid \in DOMAIN sessions : sessions[sid] = pre[sid]

\* A sweep removes one session and keeps one that is idle for exactly the
\* timeout.
C14_Witness ==
    \E t \in Threads :
        /\ Returning(t, {"cleanup_expired_sessions"})
        /\ frame[t].ret = 1
        /\ \E sid \in DOMAIN sessions :
              frame[t].current_time - sessions[sid].last_activity
                  = Lifecycle.timeout

\* C15: every session in the store has last_activity >= created_at (the
\* clock never goes back).
C15_ActivityNotBeforeCreation ==
    \A sid \in DOMAIN sessions :
        sessions[sid].last_activity >= sessions[sid].created_at

\* create_session returns a new session for which the clock advanced
\* between the reading for created_at and the one for last_activity.
C15_Witness ==
    \E t \in Threads :
        /\ Returning(t, {"create_session"})
        /\ frame[t].sid \notin DOMAIN frame[t].pre
        /\ frame[t].ret \in DOMAIN sessions
        /\ sessions[frame[t].ret].last_activity
              > sessions[frame[t].ret].created_at

InBlock(t) == pc[t] \notin {"idle", "built"}

\* What one call, running alone on the store pre, leaves and returns: post
\* and ret.  The clock readings of the call are some times up to now, in
\* the order the code reads them; T is the reading of a sweep.
SequentialCreate(pre, sid, post, ret) ==
    IF create_session_found(pre, sid)
    THEN /\ ret = sid
         /\ \E t1 \in 0 .. now : post = touch(pre, sid, t1)
    ELSE \E t1 \in 0 .. now : \E t2 \in t1 .. now :
         \E id \in IF Truthy(sid) THEN {sid} ELSE IssuedUuids \ DOMAIN pre :
            /\ ret = id
            /\ post = new_session(pre, id, t1, t2)

SequentialAdd(pre, sid, msg, post) ==
    \E t1 \in 0 .. now : \E t2 \in t1 .. now : \E t3 \in t2 .. now :
        LET found == IF sid \in DOMAIN pre THEN pre
                     ELSE new_session(pre, sid, t1, t2)
        IN  post = trim(append_and_touch(found, sid, msg, t3), sid, W)

SequentialEffect(op, sid, msg, T, pre, post, ret, timeout) ==
    CASE op = "create_session" -> SequentialCreate(pre, sid, post, ret)
      [] op \in Adds -> SequentialAdd(pre, sid, msg, post)
      [] op = "get_conversation_history" ->
            post = pre /\ ret = get_conversation_history(pre, sid, W)
      [] op = "session_exists" -> post = pre /\ ret = session_exists(pre, sid)
      [] op = "get_session_info" -> post = pre /\ ret = get_session_info(pre, sid)
      [] op = "get_active_session_count" ->
            post = pre /\ ret = get_active_session_count(pre)
      [] op = "clear_session" ->
            post = clear_session(pre, sid).sessions /\ ret = clear_session(pre, sid).ret
      [] op = "cleanup_expired_sessions" ->
            /\ post = Del(pre, expired_sessions(pre, T, timeout))
            /\ ret = Cardinality(expired_sessions(pre, T, timeout))

\* C17: at most one thread is inside a with-block of the store, and it owns
\* the lock; no call of create_session, add_message, a read, clear_session
\* or cleanup_expired_sessions on a session the callers share raises, and
\* when a call returns, the store and the value returned are what the call
\* alone would have made of the store it found when it took the lock: the
\* calls take effect one after the other, in the order they took the lock.
C17_Atomic ==
    /\ Cardinality({t \in Threads : InBlock(t)}) <= 1
    /\ \A t \in Threads :
          /\ InBlock(t) => lock.owner = t
          /\ pc[t] # "raise"
          /\ pc[t] = "return"
             => SequentialEffect(frame[t].op, frame[t].sid, frame[t].msg,
                                 frame[t].current_time, frame[t].pre, sessions,
                                 frame[t].ret, Concurrent.timeout)

\* A sweep is about to delete a session while another thread, which has
\* built a message for that session, waits for the lock.
C17_Witness ==
    \E t, u \in Threads :
        /\ pc[t] = "cleanup_delete"
        /\ pc[u] = "built"
        /\ frame[u].sid \in frame[t].todo
        /\ frame[u].sid \in DOMAIN sessions
        /\ sessions[frame[u].sid].messages # << >>

\* C18: when a sweep of the task raises, the exception is caught and logged
\* and the task sleeps again, as alive as it was; a task that is alive ends
\* only after it was cancelled.
C18_LoopSurvivesErrors ==
    [][/\ pc[Scheduler] = "raise"
          => \/ pc'[Scheduler] = "raise"
             \/ /\ pc'[Scheduler] = "idle"
                /\ cleanup_task' = cleanup_task
                /\ error_log' = error_log + 1
       /\ (TaskAlive /\ ~TaskAlive') => cleanup_task = "cancelling"]_vars

\* The task is in a sweep again, with a session to delete, after a sweep of
\* it has raised.
C18_Witness ==
    /\ error_log >= 1
    /\ cleanup_task = "running"
    /\ pc[Scheduler] = "cleanup_delete"
    /\ frame[Scheduler].todo # {}

\* A session is idle for longer than the timeout.
Expired(sid) ==
    /\ sid \in DOMAIN sessions
    /\ now - sessions[sid].last_activity > Scheduled.timeout

\* C19: while the task runs and is not cancelled, a session that is idle for
\* longer than the timeout and gets no touch and no append leaves the store
\* in the end.
C19_IdleEvicted ==
    \A sid \in Scheduled.ids :
        (Expired(sid) /\ cleanup_task = "running")
            ~> (~Expired(sid) \/ cleanup_task # "running")

\* A sweep of the task returns after deleting a session.
C19_Witness ==
    /\ pc[Scheduler] = "return"
    /\ cleanup_task = "running"
    /\ frame[Scheduler].ret >= 1
    /\ \E sid \in frame[Scheduler].expired : sid \notin DOMAIN sessions

\* C20: a store constructed with no running event loop has no task, and none
\* later; a session leaves it only in a step of a caller's clear_session or
\* of a caller's cleanup_expired_sessions.
C20_NoLoopNoTask ==
    /\ [](event_loop # "running"
             => cleanup_task = None /\ pc[Scheduler] = "idle")
    /\ [][event_loop # "running"
             => \A sid \in (DOMAIN sessions) \ (DOMAIN sessions') :
                   \E t \in Scheduled.threads :
                      /\ lock.owner = t
                      /\ frame[t].op \in {"clear_session",
                                          "cleanup_expired_sessions"}]_vars

\* Constructed with a loop that is not running: a session is idle for longer
\* than the timeout, in the store, and no call is under way.
C20_Witness ==
    /\ event_loop = "stopped"
    /\ AtRest
    /\ \E sid \in DOMAIN sessions :
          /\ Expired(sid)
          /\ sessions[sid].messages # << >>

\* ------------------------------------------------------ requests, properties
\* The store operations a chat handler has called when it reaches retrieval.
ChatCalls(entry) ==
    IF entry = "chat_endpoint"
    THEN <<"get_active_session_count", "create_session",
           "get_conversation_history", "add_user_message">>
    ELSE <<"create_session", "get_conversation_history", "add_user_message">>

\* Session sid of store S holds a message of that role and content.
HoldsMessage(S, sid, role, content) ==
    /\ sid \in DOMAIN S
    /\ \E i \in 1 .. Len(S[sid].messages) :
          S[sid].messages[i].role = role /\ S[sid].messages[i].content = content

\* The request ended with the answer of an except clause.
Failed(r) ==
    /\ r.stage = "done"
    /\ r.body \in {"Internal server error", "I'm sorry, an error occurred"}

\* The step changes what the store holds under sid.
Changed(sid) ==
    \/ (sid \in DOMAIN sessions) # (sid \in DOMAIN sessions')
    \/ /\ sid \in DOMAIN sessions
       /\ sid \in DOMAIN sessions'
       /\ sessions[sid] # sessions'[sid]

\* The session the store operation of thread t works on: the id it was
\* given, or the one create_session generates and returns in this step.
Target(t) ==
    IF frame[t].op = "create_session" /\ pc'[t] = "return"
    THEN frame'[t].ret ELSE frame[t].sid

\* C21: a chat handler records the user message before it calls generation,
\* and the assistant message only after generation returned a reply.  When
\* retrieval or generation fails, the request ends with an error, having
\* called create_session, get_conversation_history and add_user_message and
\* nothing that writes after them: its session, unless deleted since, holds
\* the user message, no session holds a reply to it, and no step of the
\* request changes another session.
C21_UserBeforeGeneration ==
    /\ [](\A t \in Routed.threads :
            LET r == request[t]
            IN  r.entry \in ChatEntries =>
                /\ (r.stage \in {"generate_response", "await"} \/ Failed(r))
                      => /\ r.calls = ChatCalls(r.entry)
                         /\ ~r.evicted
                               => HoldsMessage(sessions, r.sid, "user", r.text)
                         /\ \A sid \in DOMAIN sessions :
                               ~HoldsMessage(sessions, sid, "assistant",
                                             Reply(r.text))
                /\ (r.stage = "done" /\ r.calls = ChatCalls(r.entry)
                       /\ ~r.generated) => Failed(r)
                /\ (\E i \in 1 .. Len(r.calls) :
                         r.calls[i] = "add_assistant_message") => r.generated)
    /\ [][\A t \in Routed.threads :
            (lock.owner = t /\ request[t].entry \in ChatEntries)
               => \A sid \in AllIds(Routed) : Changed(sid) => sid = Target(t)]_vars

\* chat_endpoint answers 500 for a request whose retrieval or generation
\* raised, and the session holds the user message.
C21_Witness ==
    \E t \in Routed.threads :
        /\ request[t].entry = "chat_endpoint"
        /\ Failed(request[t])
        /\ request[t].status_code = 500
        /\ ~request[t].generated
        /\ HoldsMessage(sessions, request[t].sid, "user", request[t].text)

\* C22: a chat request that is admitted and whose generation call returns a
\* reply is answered with that reply and the id of its session (the id it
\* gave, or a generated one), and its session, unless deleted since, ends
\* with the user message followed by the reply.
C22_ReplyReturned ==
    \A t \in Routed.threads :
        LET r == request[t]
            n == StoredCount(sessions, r.sid)
        IN  (r.entry \in ChatEntries /\ r.stage = "done" /\ r.generated)
            => /\ r.body = "reply"
               /\ IF Generates(r.session_id) THEN r.sid \in IssuedUuids
                  ELSE r.sid = r.session_id
               /\ ~r.evicted
                     => /\ n >= 2
                        /\ sessions[r.sid].messages[n - 1].role = "user"
                        /\ sessions[r.sid].messages[n - 1].content = r.text
                        /\ sessions[r.sid].messages[n].role = "assistant"
                        /\ sessions[r.sid].messages[n].content = Reply(r.text)

\* C23: when the store holds max_concurrent_sessions sessions or more at the
\* time chat_endpoint reads the count, the request is answered 429 and has
\* called nothing but get_active_session_count: it makes no generation call
\* and none of its steps changes the store.  A request that finds fewer is
\* not answered 429.
C23_RejectedAtMaximum ==
    /\ [](\A t \in Routed.threads :
            LET r == request[t]
            IN  (r.entry = "chat_endpoint" /\ r.status_code = 429)
                => /\ r.stage = "done"
                   /\ r.calls = <<"get_active_session_count">>
                   /\ ~r.generated)
    /\ [][\A t \in Routed.threads :
            (request[t].entry = "chat_endpoint"
             /\ request[t].stage = "get_active_session_count")
            => /\ lock.owner = t => sessions' = sessions
               /\ (pc[t] = "return" /\ pc'[t] = "idle")
                     => (request'[t].status_code = 429
                           <=> Cardinality(DOMAIN sessions)
                                  >= Routed.max_concurrent_sessions)]_vars

\* chat_endpoint has answered 429, and the store holds what it held.
C23_Witness ==
    \E t \in Routed.threads :
        /\ request[t].entry = "chat_endpoint"
        /\ request[t].stage = "done"
        /\ request[t].status_code = 429
        /\ Cardinality(DOMAIN sessions) >= Routed.max_concurrent_sessions

\* C24: the store never holds more than max_concurrent_sessions sessions,
\* whatever chat requests, delete requests and sweeps do.
C24_CapNeverExceeded ==
    Cardinality(DOMAIN sessions) <= Routed.max_concurrent_sessions

\* C25: admission control rejects only requests that would create a
\* session: when chat_endpoint has read the count and the request names a
\* session of the store, the request is admitted whatever the count is, and
\* a request answered 429 names no session of the store.
C25_ExistingSessionAdmitted ==
    \A t \in Routed.threads :
        LET r == request[t]
        IN  r.entry = "chat_endpoint" =>
            /\ (r.stage = "get_active_session_count"
                /\ Returning(t, {"get_active_session_count"})
                /\ create_session_found(sessions, r.session_id))
                  => admitted(frame[t].ret, Routed.max_concurrent_sessions)
            /\ r.status_code = 429
                  => ~create_session_found(sessions, r.session_id)

\* C26: GET and DELETE /sessions/{id} for an id that is not in the store
\* answer 404 and leave the store as it was; for an id that is in the store
\* GET answers with the record get_session_info returned and DELETE removes
\* that session and no other, so that the id is absent for the next GET.
C26_SessionEndpoints ==
    [][\A t \in Routed.threads :
          LET r == request[t]
              present == r.session_id \in DOMAIN frame[t].pre
          IN  (r.entry \in SessionEntries /\ pc[t] = "return" /\ pc'[t] = "idle")
              => /\ request'[t].stage = "done"
                 /\ ~present
                       => /\ request'[t].status_code = 404
                          /\ sessions = frame[t].pre
                 /\ (present /\ r.entry = "get_session_info")
                       => /\ request'[t].status_code = 200
                          /\ request'[t].body = "session_info"
                          /\ frame[t].ret
                                = get_session_info(frame[t].pre, r.session_id)
                          /\ sessions = frame[t].pre
                 /\ (present /\ r.entry = "clear_session")
                       => /\ request'[t].status_code = 200
                          /\ sessions = Del(frame[t].pre, {r.session_id})]_vars

\* DELETE has removed one session of two and answered 200.
C26_Witness ==
    \E t \in Routed.threads :
        /\ request[t].entry = "clear_session"
        /\ request[t].stage = "done"
        /\ request[t].status_code = 200
        /\ request[t].session_id \notin DOMAIN sessions
        /\ sessions # EmptyStore

\* The position of m in seq.
Pos(seq, m) == CHOOSE k \in 1 .. Len(seq) : seq[k] = m
InSeq(seq, m) == \E k \in 1 .. Len(seq) : seq[k] = m

\* C27: add_user_message appends exactly one message, of role "user" and
\* of the content it was given, at the end of the session, and
\* add_assistant_message one of role "assistant"; every stored message has
\* one of the two roles; and a user message appended before an assistant
\* message comes before it in every history that returns both.
C27_WrappersFixRole ==
    /\ \A t \in Concurrent.threads :
          Returning(t, Adds)
          => LET sid == frame[t].sid
                 msg == frame[t].msg
                 n == StoredCount(sessions, sid)
             IN  /\ msg.role = IF frame[t].op = "add_user_message"
                               THEN "user" ELSE "assistant"
                 /\ Occurrences(acked[sid], msg) = 1
                 /\ acked[sid][Len(acked[sid])] = msg
                 /\ n >= 1
                 /\ sessions[sid].messages[n] = msg
    /\ \A sid \in DOMAIN sessions :
          \A i \in 1 .. Len(sessions[sid].messages) :
             sessions[sid].messages[i].role \in {"user", "assistant"}
    /\ \A t \in Concurrent.threads :
          Returning(t, {"get_conversation_history"})
          => LET a == acked[frame[t].sid]
                 h == frame[t].ret
             IN  \A i, j \in 1 .. Len(a) :
                    (i < j /\ a[i].role = "user" /\ a[j].role = "assistant"
                     /\ InSeq(h, a[i]) /\ InSeq(h, a[j]))
                    => Pos(h, a[i]) < Pos(h, a[j])

\* A history is returned that ends with a user message and the assistant
\* message appended after it.
C27_Witness ==
    \E t \in Concurrent.threads :
        /\ Returning(t, {"get_conversation_history"})
        /\ Len(frame[t].ret) >= 2
        /\ frame[t].ret[Len(frame[t].ret) - 1].role = "user"
        /\ frame[t].ret[Len(frame[t].ret)].role = "assistant"
        /\ frame[t].ret = LastN(acked[frame[t].sid], Len(frame[t].ret))

\* The number of ids for which session_exists is true.
Existing(S) == Cardinality({id \in AllIds(Lifecycle) : session_exists(S, id)})

\* C28: get_active_session_count returns the number of ids for which
\* session_exists is true.  That number grows by one over a create_session
\* or an append exactly when the call finds no session under the id it was
\* given, shrinks by one over a clear_session exactly when it returns True,
\* shrinks by the number a sweep returns, and is the same after every other
\* operation.
C28_CountTracksSessions ==
    \A t \in Lifecycle.threads :
        LET op == frame[t].op
            d == Existing(sessions) - Existing(frame[t].pre)
        IN  /\ Returning(t, {"get_active_session_count"})
                  => frame[t].ret = Existing(sessions)
            /\ Ending(t, {"create_session"} \cup Adds)
                  => d = IF create_session_found(frame[t].pre, frame[t].sid)
                         THEN 0 ELSE 1
            /\ Returning(t, {"clear_session"})
                  => d = IF frame[t].ret THEN 0 - 1 ELSE 0
            /\ Returning(t, {"cleanup_expired_sessions"})
                  => d = 0 - frame[t].ret
            /\ Ending(t, Reads \cup {"get_active_session_count"}) => d = 0

\* A sweep returns 1 and leaves one session of two.
C28_Witness ==
    \E t \in Lifecycle.threads :
        /\ Returning(t, {"cleanup_expired_sessions"})
        /\ frame[t].ret = 1
        /\ Existing(frame[t].pre) = 2
        /\ get_active_session_count(sessions) = 1

\* C29: the health endpoint answers "healthy", "connected" and 200 when
\* check_connectivity returned True, and "degraded", "disconnected" and 503
\* when it returned False.
C29_HealthAnswers ==
    \A t \in Routed.threads :
        LET r == request[t]
        IN  (r.entry = "health_check" /\ r.stage = "done")
            => IF r.connected
               THEN /\ r.body = "healthy"
                    /\ r.openai_status = "connected"
                    /\ r.status_code = 200
               ELSE /\ r.body = "degraded"
                    /\ r.openai_status = "disconnected"
                    /\ r.status_code = 503

\* C30: the task sleeps the whole interval before each sweep.  While a sweep
\* of the task is under way, at least one interval has passed since the
\* task last began to sleep, which it did when it was started and at the
\* end of each of its sweeps; the clock value the sweep reads is as late.
C30_SleepThenSweep ==
    pc[Scheduler] # "idle"
    => /\ now >= slept_from + Timed.interval
       /\ pc[Scheduler] \in {"cleanup_delete", "return"}
             => frame[Scheduler].current_time >= slept_from + Timed.interval

\* The second sweep of the task is under way: the first one ended an
\* interval or more after the start, and this one an interval or more later.
C30_Witness ==
    /\ pc[Scheduler] = "cleanup_delete"
    /\ slept_from >= Timed.interval
    /\ frame[Scheduler].current_time >= 2 * Timed.interval

\* The statements of a chat handler from retrieval to the recording of the
\* reply: the request waits for retrieval or generation, or has its reply.
Waiting == {"get_context", "generate_response", "await", "add_assistant_message"}

C35_PromptFromSnapshot ==
    \A t \in Conversation.threads :
        LET r == request[t]
        IN  (r.entry = "chat_endpoint" /\ r.prompt # << >> /\ ~r.evicted)
            => \E p \in 1 .. Len(acked[r.sid]) :
                  LET a == acked[r.sid]
                      k == Min(W, p - 1)
                      before == LastN(SubSeq(a, 1, p - 1), k)
                      sent == Tail(r.prompt)
                  IN  /\ a[p].role = "user"
                      /\ a[p].content = r.text
                      /\ r.prompt[1].role = "system"
                      /\ Len(sent) = k + 1
                      /\ \A i \in 1 .. k :
                            sent[i] = [role |-> before[i].role,
                                       content |-> before[i].content]
                      /\ sent[k + 1] = [role |-> "user", content |-> r.text]
                      /\ Cardinality({i \in 1 .. Len(sent) :
                                         sent[i].content = r.text}) = 1

\* generate_response has been called for the second message of a session:
\* it was sent the system message, the first message and the second.
C35_Witness ==
    \E t \in Conversation.threads :
        /\ request[t].entry = "chat_endpoint"
        /\ request[t].stage = "await"
        /\ ~request[t].evicted
        /\ Len(request[t].prompt) >= 3
        /\ Len(request[t].history) = Len(request[t].prompt) - 2

\* C32: for every id, the empty string included, an append does not raise;
\* the message goes to the session stored under the id; and the ids of the
\* store grow by the id at most.
C32_AppendAnyId ==
    \A t \in Lifecycle.threads :
        frame[t].op \in Adds
        => /\ pc[t] # "raise"
           /\ InBlock(t) => DOMAIN sessions \ DOMAIN frame[t].pre
                               \subseteq {frame[t].sid}
           /\ pc[t] = "return"
                 => /\ frame[t].sid \in DOMAIN sessions
                    /\ StoredCount(sessions, frame[t].sid) >= 1
                    /\ sessions[frame[t].sid].messages[
                          StoredCount(sessions, frame[t].sid)] = frame[t].msg

\* C33: with max_conversation_history = 0, get_conversation_history returns
\* the empty sequence for every session, and an append leaves at most
\* 2 * 0 = 0 messages stored.
C33_CapsAtZero ==
    \A t \in History.threads :
        W = 0
        => /\ Returning(t, {"get_conversation_history"})
                 => frame[t].ret = << >>
           /\ Returning(t, Adds)
                 => StoredCount(sessions, frame[t].sid) <= 2 * W

\* C34: for W >= 1, get_conversation_history of a session returns the last
\* min(W, k) entries of the untrimmed log of the k messages appended to it
\* since it was created: what a store that never trims would return.
C34_TrimInvisible ==
    \A t \in History.threads :
        (/\ Returning(t, {"get_conversation_history"})
         /\ W >= 1
         /\ frame[t].sid \in DOMAIN frame[t].pre)
        => LET log == acked[frame[t].sid]
           IN  frame[t].ret
                  = get_conversation_history(
                        [frame[t].pre EXCEPT ![frame[t].sid].messages = log],
                        frame[t].sid, W)

\* A read of a session that was trimmed: more messages were appended to it
\* than it stores, and the read returns W of them.
C34_Witness ==
    \E t \in History.threads :
        /\ Returning(t, {"get_conversation_history"})
        /\ W >= 1
        /\ frame[t].sid \in DOMAIN frame[t].pre
        /\ Len(acked[frame[t].sid]) > 2 * W
        /\ StoredCount(frame[t].pre, frame[t].sid) < Len(acked[frame[t].sid])
        /\ Len(frame[t].ret) = W

\* The threads that run line 68 of create_session or lines 112-113 of
\* add_message on the stored session sid in this step.
Touching(sid) ==
    {t \in Lifecycle.threads :
        /\ pc[t] \in {"create_touch", "add_message_append"}
        /\ pc'[t] # pc[t]
        /\ frame[t].sid = sid}

\* C36: in every step, the last_activity of a session that is in the store
\* before and after it does not decrease; it is the current time after a
\* step of create_session or add_message on that session, and unchanged
\* after every other step.
C36_LastActivity ==
    [][\A sid \in (DOMAIN sessions) \cap (DOMAIN sessions') :
          /\ sessions'[sid].last_activity >= sessions[sid].last_activity
          /\ Touching(sid) # {} => sessions'[sid].last_activity = now
          /\ Touching(sid) = {} => sessions'[sid].last_activity
                                       = sessions[sid].last_activity]_vars

\* An append has moved the last_activity of a session forward, and so has a
\* create_session on a stored id.
C36_Witness ==
    \E t \in Lifecycle.threads :
        /\ \/ pc[t] = "add_message_trim"
           \/ Returning(t, {"create_session"})
        /\ frame[t].sid \in (DOMAIN frame[t].pre) \cap (DOMAIN sessions)
        /\ sessions[frame[t].sid].last_activity = now
        /\ sessions[frame[t].sid].last_activity
              > frame[t].pre[frame[t].sid].last_activity

\* The statements at which a chat handler waits for retrieval or generation.
ExternalCalls == {"get_context", "generate_response", "await"}

\* C37: a chat handler that waits for retrieval or generation is in no
\* with-block of the store and does not own the lock.
C37_NoLockWhileWaiting ==
    \A t \in Routed.threads :
        (request[t].entry \in ChatEntries /\ request[t].stage \in ExternalCalls)
        => /\ lock.owner # t
           /\ ~InBlock(t)

\* While a chat request waits, after its store calls, the sweep of the task
\* owns the lock and is about to delete the session of the request.
C37_Witness ==
    \E t \in Routed.threads :
        /\ request[t].entry \in ChatEntries
        /\ request[t].stage \in ExternalCalls
        /\ request[t].calls # << >>
        /\ lock.owner = Scheduler
        /\ pc[Scheduler] = "cleanup_delete"
        /\ request[t].sid \in frame[Scheduler].todo

\* C38: a thread that is in no with-block does not own the lock; the owner of
\* the lock can always take its next step, the second acquisition of
\* add_message's nested create_session included; and every with-block a
\* thread is in comes to its end.
C38_BlocksEnd ==
    /\ [](\A t \in Scheduled.threads \cup {Scheduler} :
             /\ ~InBlock(t) => lock.owner # t
             /\ InBlock(t) => lock.owner = t /\ lock.count >= 1)
    /\ [](\A t \in Scheduled.threads :
             lock.owner = t => ENABLED InBlockStep(t, Scheduled))
    /\ [](lock.owner = Scheduler => ENABLED PeriodicCleanup(Scheduled))
    /\ \A t \in Scheduled.threads \cup {Scheduler} :
          InBlock(t) ~> ~InBlock(t)

\* add_message on an id that is not in the store is in the nested
\* create_session: the thread has acquired the lock twice.
C38_Witness ==
    \E t \in Scheduled.threads :
        /\ pc[t] \in {"create_session", "create_new"}
        /\ frame[t].op \in Adds
        /\ frame[t].sid \notin DOMAIN sessions
        /\ lock = [owner |-> t, count |-> 2]
====
